---- MODULE Spec2Model ----
(***************************************************************************)
(* eShopCo latency checker (src/api/index.py): the module-level load of    *)
(* telemetry.json into df_full, the POST handler get_region_metrics and    *)
(* the calculator get_metrics_for_region.                                  *)
(*                                                                         *)
(* Numbers.  json.load and astype(float) make latency_ms and uptime_pct    *)
(* IEEE-754 binary64 values, and every arithmetic step of the calculator   *)
(* is a binary64 operation rounded to nearest-even.  A non-negative        *)
(* binary64 value is modelled exactly, as the set of the positions of its  *)
(* one bits (value = sum of 2^i over the set); the model covers            *)
(* non-negative finite values in the normal range.                         *)
(***************************************************************************)
EXTENDS Integers, Sequences, FiniteSets

\* ------------------------------------------------------------------ bounds
MaxRows == 2        \* rows of telemetry.json in the service specification
MaxRegions == 3     \* length of a request's regions list in Spec
NumThreads == 2     \* worker threads handling calls at once in SpecConc
MaxRecs == 3        \* records handed to the calculator in SpecCalc

\* --------------------------------------------------------- binary64 values
RECURSIVE Pow2(_)
Pow2(i) == IF i = 0 THEN 1 ELSE 2 * Pow2(i - 1)

SetMin(S) == CHOOSE x \in S : \A y \in S : x <= y
SetMax(S) == 0 - SetMin({0 - x : x \in S})

Pow2Table == [i \in 0..30 |-> Pow2(i)]

\* An integer 0 <= n < 2^31 as a bit set, and back.
IntToB(n) == {i \in 0..30 : (n \div Pow2Table[i]) % 2 = 1}

RECURSIVE BToInt(_)
BToInt(S) == IF S = {} THEN 0 ELSE LET i == SetMin(S) IN Pow2Table[i] + BToInt(S \ {i})

Shift(S, k) == {i + k : i \in S}

\* Exact sum: xor is the carry-less sum, and the carries are added in turn.
RECURSIVE BAdd(_, _)
BAdd(S, T) ==
    IF T = {} THEN S
    ELSE BAdd((S \ T) \cup (T \ S), Shift(S \cap T, 1))

\* Exact difference S - T, for S >= T.
RECURSIVE BSub(_, _)
BSub(S, T) ==
    IF T = {} THEN S
    ELSE BSub((S \ T) \cup (T \ S), Shift(T \ S, 1))

BGeq(S, T) ==
    LET D == (S \ T) \cup (T \ S)
    IN  D = {} \/ SetMax(D) \in S

BAbsDiff(S, T) == IF BGeq(S, T) THEN BSub(S, T) ELSE BSub(T, S)

\* Exact product: the shifted copies of S, one per bit of T, summed pairwise.
RECURSIVE ShiftAndAdd(_, _)
ShiftAndAdd(S, T) ==
    IF SetMin(T) = SetMax(T) THEN Shift(S, SetMax(T))
    ELSE LET mid == (SetMin(T) + SetMax(T)) \div 2
         IN  BAdd(ShiftAndAdd(S, {i \in T : i <= mid}), ShiftAndAdd(S, {i \in T : i > mid}))

BMul(S, T) ==
    IF S = {} \/ T = {} THEN {}
    ELSE IF Cardinality(T) <= Cardinality(S) THEN ShiftAndAdd(S, T)
    ELSE ShiftAndAdd(T, S)

\* Round to nearest, ties to even, at bit position cut (the last bit kept).
RoundAt(S, cut) ==
    LET kept == {i \in S : i >= cut}
        up   == (cut - 1) \in S /\ (cut \in S \/ \E i \in S : i < cut - 1)
    IN  IF up THEN BAdd(kept, {cut}) ELSE kept

\* The binary64 value nearest an exact value: 53 significant bits.
RoundD(S) == IF S = {} THEN {} ELSE RoundAt(S, SetMax(S) - 52)

\* Long division of the bits of a from position low up by the integer d,
\* twelve bits at a time from chunk j down: <<quotient, remainder>>.
RECURSIVE DivChunks(_, _, _, _, _)
DivChunks(a, d, low, j, rem) ==
    IF j < 0 THEN <<{}, rem>>
    ELSE LET base == low + 12 * j
             v    == rem * 4096 + BToInt({p - base : p \in {q \in a : q >= base /\ q < base + 12}})
             rest == DivChunks(a, d, low, j - 1, v % d)
         IN  <<Shift(IntToB(v \div d), base) \cup rest[1], rest[2]>>

FAdd(a, b) == RoundD(BAdd(a, b))
FSub(a, b) == RoundD(BSub(a, b))
FMul(a, b) == RoundD(BMul(a, b))

\* a / d for a positive integer d < 2^15: at least 57 quotient bits and a
\* sticky bit for the remainder decide the rounding.
FDivInt(a, d) ==
    IF a = {} THEN {}
    ELSE LET low == SetMax(a) - 71
             qr  == DivChunks(a, d, low, 5, 0)
         IN  RoundD(IF qr[2] = 0 THEN qr[1] ELSE qr[1] \cup {low - 1})

\* rint: the nearest integer, ties to even.
Rint(a) == RoundAt(a, 0)
Floor(a) == {i \in a : i >= 0}

\* The binary64 value (hi * 2^26 + lo) * 2^e.
FromParts(p) == Shift(IntToB(p[1]), 26 + p[3]) \cup Shift(IntToB(p[2]), p[3])


\* ------------------------------------------------------------- JSON numbers
\* json.load reads a number literal as the binary64 value nearest to it; the
\* literals that occur in the modelled telemetry files, with their values.
ParseFloat(lit) ==
    FromParts(CASE lit = "0"     -> <<0, 0, 0>>
                [] lit = "0.045" -> <<48318382, 5368709, -56>>
                [] lit = "100"   -> <<0, 100, 0>>
                [] lit = "200"   -> <<0, 200, 0>>
                [] lit = "99"    -> <<0, 99, 0>>
                [] lit = "99.5"  -> <<0, 199, -1>>
                [] lit = "99.99" -> <<104847114, 16106127, -46>>
                [] lit = "101.5" -> <<0, 203, -1>>)

\* The quantile 0.95 (0x1.e666666666666p-1) and the powers of ten of round().
Q95 == FromParts(<<63753420, 53687091, -52>>)
One == IntToB(1)
Half == {-1}
RECURSIVE Pow10(_)
Pow10(d) == IF d = 0 THEN 1 ELSE 10 * Pow10(d - 1)

\* ------------------------------------------------------------------ strings
\* A string is the sequence of its characters; str.lower() on the letters used.
LowerChar(c) ==
    CASE c = "U" -> "u"
      [] c = "S" -> "s"
      [] c = "E" -> "e"
      [] OTHER -> c

Lower(s) == [i \in DOMAIN s |-> LowerChar(s[i])]

\* --------------------------------------------------------------- the loader
None == [kind |-> "None"]
DataFrame(rows) == [kind |-> "DataFrame", rows |-> rows]

\* One row of the frame: region as read, the two numeric columns as float.
LoadRow(row) ==
    [region     |-> row.region,
     latency_ms |-> ParseFloat(row.latency_ms),
     uptime_pct |-> ParseFloat(row.uptime_pct)]

\* Mutant of LoadResult: a malformed file leaves an empty frame, not None.
LoadResultEmptyFrame(f) ==
    CASE f.kind = "absent"    -> [raised |-> "", df |-> None]
      [] f.kind = "malformed" -> [raised |-> "", df |-> DataFrame(<<>>)]
      [] f.rows = <<>>        -> [raised |-> "KeyError", df |-> None]
      [] OTHER -> [raised |-> "",
                   df |-> DataFrame([i \in DOMAIN f.rows |-> LoadRow(f.rows[i])])]

\* The outcome of the module-level try/except: the value of df_full, or the
\* exception that leaves the module (a frame without the column latency_ms).
LoadResult(f) ==
    CASE f.kind = "absent"    -> [raised |-> "", df |-> None]
      [] f.kind = "malformed" -> [raised |-> "", df |-> None]
      [] f.rows = <<>>        -> [raised |-> "KeyError", df |-> None]
      [] OTHER -> [raised |-> "",
                   df |-> DataFrame([i \in DOMAIN f.rows |-> LoadRow(f.rows[i])])]

\* ----------------------------------------------------------- the calculator
Column(region_df, col) == [i \in DOMAIN region_df |-> region_df[i][col]]

\* Series.sum(): the running binary64 sum in row order, from 0.0.
RECURSIVE SeriesSum(_, _)
SeriesSum(xs, n) == IF n = 0 THEN {} ELSE FAdd(SeriesSum(xs, n - 1), xs[n])

\* Mutant of SeriesMean: the sum, not divided by the count.
SeriesMeanUndivided(xs) == SeriesSum(xs, Len(xs))

\* Series.mean(): the sum divided by the count.
SeriesMean(xs) == FDivInt(SeriesSum(xs, Len(xs)), Len(xs))

\* Ascending order (insertion sort).
RECURSIVE Insert(_, _)
Insert(s, x) ==
    IF s = <<>> THEN <<x>>
    ELSE IF BGeq(s[1], x) THEN <<x>> \o s
         ELSE <<s[1]>> \o Insert(Tail(s), x)

RECURSIVE SortAsc(_, _)
SortAsc(xs, n) == IF n = 0 THEN <<>> ELSE Insert(SortAsc(xs, n - 1), xs[n])

\* Mutant of Lerp: interpolation "lower", the rank below the virtual index.
LerpLower(a, b, t) == a

\* Linear interpolation between a <= b at weight t, as the quantile does it.
Lerp(a, b, t) ==
    LET d == FSub(b, a)
    IN  IF BGeq(t, Half) THEN FSub(b, FMul(d, FSub(One, t)))
        ELSE FAdd(a, FMul(d, t))

\* Series.quantile(q), interpolation "linear": the virtual index (n-1)*q,
\* the ranks below and above it, and the interpolation between them.
SeriesQuantile(xs, q) ==
    LET n    == Len(xs)
        s    == SortAsc(xs, n)
        h    == FMul(IntToB(n - 1), q)
        lo   == BToInt(Floor(h))
        hi   == IF lo + 1 > n - 1 THEN n - 1 ELSE lo + 1
        g    == FSub(h, Floor(h))
    IN  Lerp(s[lo + 1], s[hi + 1], g)

\* Mutant of Exceeds: >= in place of >.
ExceedsOrEquals(x, t) == IF t < 0 THEN TRUE ELSE BGeq(x, IntToB(t))

\* latency > threshold, the threshold an int of either sign.
Exceeds(x, t) == IF t < 0 THEN TRUE ELSE ~BGeq(IntToB(t), x)

CountBreaches(xs, t) == Cardinality({i \in DOMAIN xs : Exceeds(xs[i], t)})

\* round(x, d) of a numpy float: scale by 10^d, rint, scale back.
Round(x, d) == FDivInt(Rint(FMul(x, IntToB(Pow10(d)))), Pow10(d))

\* Mutant of UptimeFraction: the mean percentage, not divided by 100.
UptimePercent(xs) == SeriesMean(xs)

\* region_df['uptime_pct'].mean() / 100.0
UptimeFraction(xs) == FDivInt(SeriesMean(xs), 100)

get_metrics_for_region(region_df, threshold) ==
    LET avg_latency == SeriesMean(Column(region_df, "latency_ms"))
        p95_latency == SeriesQuantile(Column(region_df, "latency_ms"), Q95)
        breaches    == CountBreaches(Column(region_df, "latency_ms"), threshold)
        avg_uptime  == UptimeFraction(Column(region_df, "uptime_pct"))
    IN  [avg_latency |-> Round(avg_latency, 2),
         p95_latency |-> Round(p95_latency, 2),
         avg_uptime  |-> Round(avg_uptime, 4),
         breaches    |-> breaches]


\* ------------------------------------------------------------- the handler
\* df_full[df_full['region'] == name]: the rows whose region is name, in order.
RECURSIVE BoolIndex(_, _)
BoolIndex(rows, name) ==
    IF rows = <<>> THEN <<>>
    ELSE IF rows[1].region = name THEN <<rows[1]>> \o BoolIndex(Tail(rows), name)
         ELSE BoolIndex(Tail(rows), name)

\* The rows the handler selects for a requested region.
SelectRegion(df, region) == BoolIndex(df.rows, Lower(region))

\* Mutant of ErrorMessage: the lower-cased name in the message.
ErrorMessageLowered(region) == <<"No data found for region '">> \o Lower(region) \o <<"'">>

ErrorMessage(region) == <<"No data found for region '">> \o region \o <<"'">>

\* One pass of the loop body: the value stored under the requested name.
RegionResult(df, region, threshold) ==
    LET region_df == SelectRegion(df, region)
    IN  IF region_df = <<>> THEN [error |-> ErrorMessage(region)]
        ELSE get_metrics_for_region(region_df, threshold)

\* A dict is the sequence of its (key, value) items in insertion order.
Keys(d) == [i \in DOMAIN d |-> d[i][1]]
HasKey(d, k) == \E i \in DOMAIN d : d[i][1] = k
Get(d, k) == d[CHOOSE i \in DOMAIN d : d[i][1] = k][2]

\* Mutant of SetItem: a list of items, a repeated key is stored again.
SetItemAppend(d, k, v) == Append(d, <<k, v>>)

\* Mutant of SetItem: an existing key is deleted and inserted anew, last.
SetItemMoveToEnd(d, k, v) == Append(SelectSeq(d, LAMBDA it : it[1] # k), <<k, v>>)

\* d[k] = v: a new key goes last, an existing key keeps its place.
SetItem(d, k, v) ==
    IF HasKey(d, k) THEN [i \in DOMAIN d |-> IF d[i][1] = k THEN <<k, v>> ELSE d[i]]
    ELSE Append(d, <<k, v>>)

\* Mutant of ResultsOf: one module-level results dict shared by every call.
ResultsShared(t) == 1

\* The frame of a call holds its own results dict (results = {} in the body).
ResultsOf(t) == t

DataUnavailable(df) == df = None

Http500 == [status |-> 500, detail |-> "Data loading failed. Check telemetry.json path."]
Http200(body) == [status |-> 200, body |-> body]
NoResponse == [status |-> 0]
NoRequest == [regions |-> <<>>, threshold_ms |-> 0]

VARIABLES
    file,       \* telemetry.json on disk: absent, malformed, or its rows
    proc,       \* the process: "import", "serving", or "crashed"
    df_full,    \* the module-level frame, None when the load failed
    pc,         \* per worker thread: "idle", "loop", "done"
    request,    \* per worker thread: the MetricsRequest being handled
    idx,        \* per worker thread: position of the for loop in regions
    results,    \* the results dicts, one per call frame
    response,   \* per worker thread: what the call returned or raised
    calc_pc,    \* SpecCalc: "call" before get_metrics_for_region runs, "done" after
    calc_in,    \* SpecCalc: the arguments of get_metrics_for_region
    calc_out    \* SpecCalc: its return value

vars == <<file, proc, df_full, pc, request, idx, results, response, calc_pc, calc_in, calc_out>>
svars == <<file, proc, df_full, pc, request, idx, results, response>>
cvars == <<calc_pc, calc_in, calc_out>>

\* ------------------------------------------------------------ input domains
Threads == 1..NumThreads

SeqsUpTo(S, n) == UNION {[1..k -> S] : k \in 0..n}

Names == {<<"u", "s">>, <<"U", "S">>, <<"E", "U">>}
Thresholds == {100, 150}

FileRows ==
    {[region |-> <<"u", "s">>, latency_ms |-> "100", uptime_pct |-> "99.5"],
     [region |-> <<"u", "s">>, latency_ms |-> "200", uptime_pct |-> "99"],
     [region |-> <<"E", "U">>, latency_ms |-> "0.045", uptime_pct |-> "100"]}

Files ==
    {[kind |-> "absent"], [kind |-> "malformed"]}
    \cup {[kind |-> "json", rows |-> r] :
              r \in {q \in SeqsUpTo(FileRows, MaxRows) :
                        \A i, j \in DOMAIN q : q[i] = q[j] => i = j}}

\* ------------------------------------------------------------------ actions
\* Module import: lines 16-33.
Load ==
    /\ proc = "import"
    /\ LET r == LoadResult(file)
       IN  /\ proc' = IF r.raised = "" THEN "serving" ELSE "crashed"
           /\ df_full' = r.df
    /\ UNCHANGED <<file, pc, request, idx, results, response, cvars>>

\* POST /: the call starts; with no data it raises HTTPException(500).
Receive(t, regions, threshold_ms) ==
    /\ proc = "serving"
    /\ pc[t] = "idle"
    /\ request' = [request EXCEPT ![t] = [regions |-> regions, threshold_ms |-> threshold_ms]]
    /\ IF DataUnavailable(df_full)
       THEN /\ pc' = [pc EXCEPT ![t] = "done"]
            /\ response' = [response EXCEPT ![t] = Http500]
            /\ UNCHANGED <<idx, results>>
       ELSE /\ pc' = [pc EXCEPT ![t] = "loop"]
            /\ idx' = [idx EXCEPT ![t] = 1]
            /\ results' = [results EXCEPT ![ResultsOf(t)] = <<>>]
            /\ UNCHANGED response
    /\ UNCHANGED <<file, proc, df_full, cvars>>

\* One iteration of the for loop over request.regions.
Iterate(t) ==
    /\ pc[t] = "loop"
    /\ idx[t] <= Len(request[t].regions)
    /\ LET region == request[t].regions[idx[t]]
           c == ResultsOf(t)
       IN  results' = [results EXCEPT ![c] =
               SetItem(results[c], region,
                       RegionResult(df_full, region, request[t].threshold_ms))]
    /\ idx' = [idx EXCEPT ![t] = idx[t] + 1]
    /\ UNCHANGED <<file, proc, df_full, pc, request, response, cvars>>

\* return results
Return(t) ==
    /\ pc[t] = "loop"
    /\ idx[t] > Len(request[t].regions)
    /\ response' = [response EXCEPT ![t] = Http200(results[ResultsOf(t)])]
    /\ pc' = [pc EXCEPT ![t] = "done"]
    /\ UNCHANGED <<file, proc, df_full, request, idx, results, cvars>>

\* The response is sent and the worker takes the next call.
Finish(t) ==
    /\ pc[t] = "done"
    /\ pc' = [pc EXCEPT ![t] = "idle"]
    /\ request' = [request EXCEPT ![t] = NoRequest]
    /\ response' = [response EXCEPT ![t] = NoResponse]
    /\ idx' = [idx EXCEPT ![t] = 0]
    /\ UNCHANGED <<file, proc, df_full, results, cvars>>

ServiceInit ==
    /\ file \in Files
    /\ proc = "import"
    /\ df_full = None
    /\ pc = [t \in Threads |-> "idle"]
    /\ request = [t \in Threads |-> NoRequest]
    /\ idx = [t \in Threads |-> 0]
    /\ results = [t \in Threads |-> <<>>]
    /\ response = [t \in Threads |-> NoResponse]

\* Spec: the service with one call in flight at a time.
Init ==
    /\ ServiceInit
    /\ calc_pc = "off"
    /\ calc_in = [region_df |-> <<>>, threshold |-> 0]
    /\ calc_out = [breaches |-> 0]

Next ==
    \/ Load
    \/ \E regions \in SeqsUpTo(Names, MaxRegions), th \in Thresholds : Receive(1, regions, th)
    \/ Iterate(1)
    \/ Return(1)
    \/ Finish(1)

Spec == Init /\ [][Next]_vars

\* SpecConc: the worker threads handle calls at once, their steps interleaved.
ConcRegionLists == {<<<<"u", "s">>>>, <<<<"E", "U">>, <<"U", "S">>>>}

ConcNext ==
    \/ Load
    \/ \E t \in Threads, regions \in ConcRegionLists : Receive(t, regions, 150)
    \/ \E t \in Threads : Iterate(t)
    \/ \E t \in Threads : Return(t)
    \/ \E t \in Threads : Finish(t)

SpecConc == Init /\ [][ConcNext]_vars


\* ------------------------------------------- SpecCalc: the calculator alone
\* get_metrics_for_region on every non-empty frame of up to MaxRecs rows
\* drawn from CalcRows, in every order, and every threshold of CalcThresholds.
CalcRows ==
    {[region |-> <<"u", "s">>, latency_ms |-> "0.045", uptime_pct |-> "99.5"],
     [region |-> <<"u", "s">>, latency_ms |-> "100",   uptime_pct |-> "99"],
     [region |-> <<"u", "s">>, latency_ms |-> "200",   uptime_pct |-> "100"],
     [region |-> <<"u", "s">>, latency_ms |-> "100",   uptime_pct |-> "0"],
     [region |-> <<"u", "s">>, latency_ms |-> "0",     uptime_pct |-> "101.5"]}

CalcThresholds == {0 - 5, 0, 100, 150}

CalcFrames ==
    {[i \in DOMAIN rows |-> LoadRow(rows[i])] : rows \in SeqsUpTo(CalcRows, MaxRecs) \ {<<>>}}

CalcInit ==
    /\ ServiceInit
    /\ file = [kind |-> "absent"]
    /\ calc_pc = "call"
    /\ calc_in \in [region_df : CalcFrames, threshold : CalcThresholds]
    /\ calc_out = [breaches |-> 0]

Compute ==
    /\ calc_pc = "call"
    /\ calc_out' = get_metrics_for_region(calc_in.region_df, calc_in.threshold)
    /\ calc_pc' = "done"
    /\ UNCHANGED <<svars, calc_in>>

SpecCalc == CalcInit /\ [][Compute]_vars


\* =================================================== claims on the calculator
CalcDone == calc_pc = "done"
Lat == Column(calc_in.region_df, "latency_ms")
Upt == Column(calc_in.region_df, "uptime_pct")
NRecs == Len(calc_in.region_df)

\* The integer k for which a returned value reads k / 10^d, and whether the
\* value is the binary64 number nearest k / 10^d (it prints with d decimals).
Decimals(r, d) == BToInt(Rint(BMul(r, IntToB(Pow10(d)))))
IsDecimal(r, d) == r = FDivInt(IntToB(Decimals(r, d)), Pow10(d))

\* x > t over the reals, by integer part and fraction.
GreaterThanInt(x, t) ==
    \/ t < 0
    \/ BToInt(Floor(x)) > t
    \/ BToInt(Floor(x)) = t /\ x # Floor(x)

\* The representation error allowed when a binary64 result is compared with
\* the exact value of a formula: 2^-20 of a unit in the last decimal kept.
Slack == {0 - 20}

RECURSIVE ExactSum(_, _)
ExactSum(xs, n) == IF n = 0 THEN {} ELSE BAdd(ExactSum(xs, n - 1), xs[n])

IsAscending(s) == \A i \in 1..(Len(s) - 1) : BGeq(s[i + 1], s[i])
Permutations(n) == {p \in [1..n -> 1..n] : \A i, j \in 1..n : p[i] = p[j] => i = j}
SwapRows(df, i) ==
    [j \in DOMAIN df |-> IF j = i THEN df[i + 1] ELSE IF j = i + 1 THEN df[i] ELSE df[j]]

\* 20 times the linear-interpolation quantile of the ascending values s at
\* h = 0.95 * (n - 1) = 19 * (n - 1) / 20, computed exactly.
ExactP95Times20(s) ==
    LET n  == Len(s)
        lo == (19 * (n - 1)) \div 20
        f  == (19 * (n - 1)) % 20
        hi == IF f = 0 THEN lo ELSE lo + 1
    IN  BAdd(BMul(s[lo + 1], IntToB(20)), BMul(BSub(s[hi + 1], s[lo + 1]), IntToB(f)))

\* C6: breaches is the number of records whose latency_ms is strictly greater
\* than the threshold, whatever the sign of the threshold; a record whose
\* latency equals the threshold is not counted; 0 <= breaches <= n.
C6_BreachesStrict ==
    CalcDone =>
        /\ calc_out.breaches =
               Cardinality({i \in 1..NRecs : GreaterThanInt(Lat[i], calc_in.threshold)})
        /\ calc_out.breaches >= 0
        /\ calc_out.breaches <= NRecs
        /\ calc_in.threshold >= 0 =>
               calc_out.breaches <=
                   Cardinality({i \in 1..NRecs : Lat[i] # IntToB(calc_in.threshold)})

\* A frame with a record at the threshold and a record above it.
C6_Witness ==
    /\ CalcDone
    /\ calc_in.threshold = 100
    /\ \E i \in 1..NRecs : Lat[i] = IntToB(100)
    /\ calc_out.breaches = 1
    /\ NRecs >= 2

\* C7: p95_latency is a 2-decimal number within half a unit of the second
\* decimal (up to binary64 representation error) of the linear-interpolation
\* quantile s[floor(h)] + (h - floor(h)) * (s[ceil(h)] - s[floor(h)]),
\* h = 0.95 * (n - 1), of the latencies in ascending order s; latencies 100
\* and 200 give 195.0; swapping two neighbouring records does not change it.
C7_P95Linear ==
    CalcDone =>
        LET k == Decimals(calc_out.p95_latency, 2)
        IN  /\ IsDecimal(calc_out.p95_latency, 2)
            /\ \E p \in Permutations(NRecs) :
                   LET s == [i \in 1..NRecs |-> Lat[p[i]]]
                   IN  /\ IsAscending(s)
                       /\ BGeq(BAdd(IntToB(10), Slack),
                               BAbsDiff(BMul(IntToB(k), IntToB(20)),
                                        BMul(ExactP95Times20(s), IntToB(100))))
            /\ (NRecs = 1 => calc_out.p95_latency = Round(Lat[1], 2))
            /\ (NRecs = 2 /\ {Lat[1], Lat[2]} = {IntToB(100), IntToB(200)}
                    => calc_out.p95_latency = IntToB(195))
            /\ \A i \in 1..(NRecs - 1) :
                   get_metrics_for_region(SwapRows(calc_in.region_df, i),
                                          calc_in.threshold).p95_latency
                       = calc_out.p95_latency

\* Latencies 200 then 100, out of order, give 195.0.
C7_Witness ==
    /\ CalcDone
    /\ NRecs = 2
    /\ Lat = <<IntToB(200), IntToB(100)>>
    /\ calc_out.p95_latency = IntToB(195)

\* C8 (as claimed): when every record has the same latency v, avg_latency =
\* p95_latency = v rounded to 2 decimals, and breaches is 0 when threshold >= v
\* and the number of records when threshold < v.
C8_IdenticalLatencies ==
    (CalcDone /\ \A i \in 1..NRecs : Lat[i] = Lat[1]) =>
        /\ calc_out.avg_latency = calc_out.p95_latency
        /\ calc_out.p95_latency = Round(Lat[1], 2)
        /\ calc_out.breaches =
               IF GreaterThanInt(Lat[1], calc_in.threshold) THEN NRecs ELSE 0

\* C8 (amended): when every record has the same latency v, p95_latency is v
\* rounded to 2 decimals and breaches is 0 when threshold >= v and the number
\* of records when threshold < v; avg_latency is the binary64 mean rounded to
\* 2 decimals, which equals p95_latency for one or two records and is within
\* 0.01 of it for more.
C8_IdenticalLatenciesAmended ==
    (CalcDone /\ \A i \in 1..NRecs : Lat[i] = Lat[1]) =>
        LET ka == Decimals(calc_out.avg_latency, 2)
            kp == Decimals(calc_out.p95_latency, 2)
        IN  /\ calc_out.p95_latency = Round(Lat[1], 2)
            /\ calc_out.breaches =
                   IF GreaterThanInt(Lat[1], calc_in.threshold) THEN NRecs ELSE 0
            /\ IsDecimal(calc_out.avg_latency, 2)
            /\ NRecs <= 2 => calc_out.avg_latency = calc_out.p95_latency
            /\ ka - kp <= 1
            /\ kp - ka <= 1

\* Three records of latency 0.045: avg_latency 0.05, p95_latency 0.04.
C8_Witness ==
    /\ CalcDone
    /\ NRecs = 3
    /\ \A i \in 1..NRecs : Lat[i] = ParseFloat("0.045")
    /\ Decimals(calc_out.avg_latency, 2) = 5
    /\ Decimals(calc_out.p95_latency, 2) = 4

\* C9: avg_uptime is a 4-decimal number within half a unit of the fourth
\* decimal (up to binary64 representation error) of the mean of uptime_pct
\* divided by 100, and lies in [0, 1] when every uptime_pct lies in [0, 100].
C9_AvgUptime ==
    CalcDone =>
        LET k == Decimals(calc_out.avg_uptime, 4)
            e == BAbsDiff(BMul(IntToB(k), IntToB(NRecs)),
                          BMul(ExactSum(Upt, NRecs), IntToB(100)))
        IN  /\ IsDecimal(calc_out.avg_uptime, 4)
            /\ BGeq(BMul(IntToB(NRecs), BAdd(One, Slack)), Shift(e, 1))
            /\ (\A i \in 1..NRecs : BGeq(IntToB(100), Upt[i]))
                   => BGeq(One, calc_out.avg_uptime)

\* Uptimes 99.5 and 99 give 0.9925.
C9_Witness ==
    /\ CalcDone
    /\ NRecs = 2
    /\ {Upt[1], Upt[2]} = {ParseFloat("99.5"), ParseFloat("99")}
    /\ Decimals(calc_out.avg_uptime, 4) = 9925


\* ====================================================== claims on the service
\* The dict a call returns when it runs alone against the frame df.
RECURSIVE HandleAlone(_, _, _, _)
HandleAlone(df, regions, th, n) ==
    IF n = 0 THEN <<>>
    ELSE SetItem(HandleAlone(df, regions, th, n - 1), regions[n],
                 RegionResult(df, regions[n], th))

Answered(t) == pc[t] = "done" /\ response[t].status = 200
Count(d, k) == Cardinality({i \in DOMAIN d : d[i][1] = k})
Occurrences(regions, k) == Cardinality({i \in DOMAIN regions : regions[i] = k})
NoRows(df, name) == \A i \in DOMAIN df.rows : df.rows[i].region # Lower(name)

\* Equality of two strings ignoring letter case.
SameIgnoringCase(a, b) == Lower(a) = Lower(b)

RECURSIVE RowsIgnoringCase(_, _)
RowsIgnoringCase(rows, name) ==
    IF rows = <<>> THEN <<>>
    ELSE IF SameIgnoringCase(rows[1].region, name)
         THEN <<rows[1]>> \o RowsIgnoringCase(Tail(rows), name)
         ELSE RowsIgnoringCase(Tail(rows), name)

\* The regions list without its repeats, each name where it first occurs.
RECURSIVE FirstOccurrences(_)
FirstOccurrences(regions) ==
    IF regions = <<>> THEN <<>>
    ELSE LET front == FirstOccurrences(SubSeq(regions, 1, Len(regions) - 1))
             last  == regions[Len(regions)]
         IN  IF \E i \in DOMAIN front : front[i] = last THEN front
             ELSE Append(front, last)

\* C1: with the data loaded a call does not fail; a requested name with no
\* rows has exactly one entry, under the name as the caller wrote it, holding
\* the error object with that name in its message; every other requested
\* name holds the value a call for that name alone returns.
C1_UnknownRegion ==
    \A t \in Threads :
        (pc[t] = "done" /\ ~DataUnavailable(df_full)) =>
            /\ response[t].status = 200
            /\ \A i \in DOMAIN request[t].regions :
                   LET name == request[t].regions[i]
                       body == response[t].body
                   IN  /\ Count(body, name) = 1
                       /\ IF NoRows(df_full, name)
                          THEN Get(body, name) =
                                   [error |-> <<"No data found for region '">> \o name \o <<"'">>]
                          ELSE Get(body, name) =
                                   Get(HandleAlone(df_full, <<name>>, request[t].threshold_ms, 1), name)

\* A call for "EU" (no rows once lower-cased) and "US" (rows of "us").
C1_Witness ==
    /\ Answered(1)
    /\ HasKey(response[1].body, <<"E", "U">>)
    /\ HasKey(response[1].body, <<"U", "S">>)
    /\ Get(response[1].body, <<"E", "U">>) =
           [error |-> <<"No data found for region '", "E", "U", "'">>]
    /\ Get(response[1].body, <<"U", "S">>) # [error |-> ErrorMessage(<<"U", "S">>)]

\* C2 (as claimed): a record is selected for a requested name exactly when its
\* region equals the name ignoring letter case, whatever the casing of the
\* region in the loaded data: the entry of every requested name is computed
\* from the rows that match it ignoring case.
C2_CaseInsensitive ==
    \A t \in Threads :
        Answered(t) =>
            \A i \in DOMAIN request[t].regions :
                LET name == request[t].regions[i]
                    rows == RowsIgnoringCase(df_full.rows, name)
                IN  Get(response[t].body, name) =
                        IF rows = <<>> THEN [error |-> ErrorMessage(name)]
                        ELSE get_metrics_for_region(rows, request[t].threshold_ms)

\* C3: after a failed load (file absent or not valid JSON) the process is
\* serving with df_full None, in every later state; no call computes a
\* result and every call that has ended raised the same HTTP 500.
C3_Unavailable ==
    (file.kind \in {"absent", "malformed"} /\ proc # "import") =>
        /\ proc = "serving"
        /\ df_full = None
        /\ \A t \in Threads :
               /\ pc[t] \in {"idle", "done"}
               /\ results[t] = <<>>
               /\ pc[t] = "done" => response[t] = Http500

\* A call with two regions against a malformed file has raised the 500.
C3_Witness ==
    /\ file.kind = "malformed"
    /\ pc[1] = "done"
    /\ Len(request[1].regions) = 2
    /\ response[1] = Http500

\* C4: a name that occurs more than once in regions has exactly one entry,
\* and it holds what a call naming that region once, with the same
\* threshold, returns for it.
C4_DuplicateNames ==
    \A t \in Threads :
        Answered(t) =>
            \A i \in DOMAIN request[t].regions :
                LET name == request[t].regions[i]
                IN  Occurrences(request[t].regions, name) > 1 =>
                        /\ Count(response[t].body, name) = 1
                        /\ Get(response[t].body, name) =
                               Get(HandleAlone(df_full, <<name>>, request[t].threshold_ms, 1), name)

\* "us" named twice, with rows: one entry, holding metrics.
C4_Witness ==
    /\ Answered(1)
    /\ Occurrences(request[1].regions, <<"u", "s">>) = 2
    /\ Len(response[1].body) = 1
    /\ ~NoRows(df_full, <<"u", "s">>)

\* C5: the keys of the response are the requested names as the caller wrote
\* them, one entry per name, in the order in which the caller first listed
\* them, for lists with unknown names, repeats and names differing in case.
C5_KeysInRequestOrder ==
    \A t \in Threads :
        Answered(t) => Keys(response[t].body) = FirstOccurrences(request[t].regions)

\* "US", "us", "US": two entries, "US" first.
C5_Witness ==
    /\ Answered(1)
    /\ request[1].regions = <<<<"U", "S">>, <<"u", "s">>, <<"U", "S">>>>
    /\ Keys(response[1].body) = <<<<"U", "S">>, <<"u", "s">>>>

\* C10: once loaded the frame is what the file holds, in every state, and
\* under every interleaving each call returns what it returns run alone.
C10_Independent ==
    proc = "serving" =>
        /\ df_full = LoadResult(file).df
        /\ \A t \in Threads :
               Answered(t) =>
                   response[t].body =
                       HandleAlone(df_full, request[t].regions, request[t].threshold_ms,
                                   Len(request[t].regions))

\* Two calls for different regions have both returned, each its own entries.
C10_Witness ==
    /\ Answered(1)
    /\ Answered(2)
    /\ request[1].regions = <<<<"u", "s">>>>
    /\ request[2].regions = <<<<"E", "U">>, <<"U", "S">>>>
    /\ Len(response[1].body) = 1
    /\ Len(response[2].body) = 2

====
